---- MODULE Spec2Model ----
(***************************************************************************)
(* Deal scoring (scoring.py, ScoringEngine) and preference matching        *)
(* (matching.py, MatchingEngine) of autosniper.                            *)
(*                                                                         *)
(* Python values are represented as follows.                               *)
(*  - a str is a sequence of one-character strings;                        *)
(*  - a text field whose key is missing is Absent, one holding None is     *)
(*    Null; a numeric field whose key is missing is NoInt; BadNum is a     *)
(*    present, truthy, non-numeric value of a numeric field;               *)
(*  - a float is an exact rational <<n, d>> in lowest terms, d > 0; a      *)
(*    value rounded to one decimal is an integer number of tenths;         *)
(*  - a call that raises returns a record with ok = FALSE.                 *)
(***************************************************************************)
EXTENDS Integers, Sequences, FiniteSets, TLC

VARIABLES
    now,        \* datetime.now().year, read by the scoring engine
    market,     \* the market_data the engines were constructed with
    listings,   \* the caller's listing dicts (input of a run)
    prefs,      \* the caller's preference dicts (input of a run)
    scored,     \* what the last batch_score_listings call returned
    out,        \* what the last find_matches call returned
    result,     \* what the last score_listing call returned
    gradeArg,   \* the argument of the last _get_grade call
    gradeRes,   \* what the last _get_grade call returned
    matched,    \* what match_listings_to_preference returned, per preference
    curveArg,   \* the price ratio of the last price-curve evaluation
    curveRes,   \* what the last price-curve evaluation returned
    pc,         \* the last call made
    marks       \* how many notified markers the persistence layer has written

vars == <<now, market, listings, prefs, scored, out, result, gradeArg, gradeRes,
          matched, curveArg, curveRes, pc, marks>>

-----------------------------------------------------------------------------
(* Python values *)

Absent == <<"<absent>">>
Null == <<"<None>">>
NoInt == -1
BadNum == -2

\* dict.get(key, default) for a text field
Get(v, default) ==
    IF v = Absent THEN default ELSE v

\* str.lower() on the characters the model uses
LowerChar(c) ==
    CASE c = "A" -> "a" [] c = "B" -> "b" [] c = "D" -> "d" [] c = "F" -> "f"
      [] c = "K" -> "k" [] c = "L" -> "l" [] c = "M" -> "m" [] c = "N" -> "n"
      [] c = "P" -> "p" [] c = "U" -> "u" [] c = "X" -> "x" [] c = "Y" -> "y"
      [] OTHER -> c

RECURSIVE Lower(_)
Lower(s) ==
    IF s = <<>> THEN <<>> ELSE <<LowerChar(Head(s))>> \o Lower(Tail(s))

\* Python's `sub in s` for strings
Contains(sub, s) ==
    \E i \in 0..(Len(s) - Len(sub)) : SubSeq(s, i + 1, i + Len(sub)) = sub

\* str.strip(): drop leading and trailing blanks
RECURSIVE LStrip(_)
LStrip(s) ==
    IF s # <<>> /\ Head(s) = " " THEN LStrip(Tail(s)) ELSE s

RECURSIVE RStrip(_)
RStrip(s) ==
    IF s # <<>> /\ s[Len(s)] = " " THEN RStrip(SubSeq(s, 1, Len(s) - 1)) ELSE s

Strip(s) ==
    RStrip(LStrip(s))

\* positions of ':' in s
Colons(s) ==
    {i \in 1..Len(s) : s[i] = ":"}

Min(S) ==
    CHOOSE x \in S : \A y \in S : x <= y

\* s.split(':')[1], for a string that holds a ':'
SplitSecond(s) ==
    LET c1 == Min(Colons(s))
        rest == {i \in Colons(s) : i > c1}
        stop == IF rest = {} THEN Len(s) + 1 ELSE Min(rest)
    IN SubSeq(s, c1 + 1, stop - 1)

-----------------------------------------------------------------------------
(* Exact arithmetic standing for Python's floats *)

Abs(x) ==
    IF x < 0 THEN -x ELSE x

RECURSIVE GCD(_, _)
GCD(a, b) ==
    IF b = 0 THEN a ELSE GCD(b, a % b)

Rat(n, d) ==
    LET g == GCD(Abs(n), d) IN <<n \div g, d \div g>>

R(n) == <<n, 1>>

RAdd(a, b) == Rat(a[1] * b[2] + b[1] * a[2], a[2] * b[2])
RSub(a, b) == Rat(a[1] * b[2] - b[1] * a[2], a[2] * b[2])
RMul(a, b) == Rat(a[1] * b[1], a[2] * b[2])
\* a / b for b > 0
RDiv(a, b) == Rat(a[1] * b[2], a[2] * b[1])
RLe(a, b) == a[1] * b[2] <= b[1] * a[2]
RLt(a, b) == a[1] * b[2] < b[1] * a[2]

\* round(x, 1) for x >= 0, in tenths: nearest tenth, a tie to the even one
Round1(x) ==
    LET n == 10 * x[1]
        q == n \div x[2]
        r == n % x[2]
    IN IF 2 * r < x[2] THEN q
       ELSE IF 2 * r > x[2] THEN q + 1
       ELSE IF q % 2 = 0 THEN q ELSE q + 1

-----------------------------------------------------------------------------
(* Reference data *)

\* expected mileage by age in years, ages 1..20
TYPICAL_MILEAGE ==
    << 10000, 20000, 30000, 40000, 48000, 56000, 64000, 72000, 80000, 88000,
       95000, 102000, 109000, 115000, 121000, 127000, 133000, 138000, 143000, 148000 >>

\* percentage of the original value, by age
PRICE_DEPRECIATION ==
    (0 :> 100) @@ (1 :> 80) @@ (2 :> 70) @@ (3 :> 60) @@ (4 :> 50) @@ (5 :> 42)
    @@ (6 :> 36) @@ (7 :> 31) @@ (8 :> 27) @@ (9 :> 24) @@ (10 :> 21) @@ (12 :> 18)
    @@ (14 :> 15) @@ (16 :> 13) @@ (18 :> 11) @@ (20 :> 10)

\* the bands in dict order: <<grade, min_score, max_score>>
GRADE_RANGES ==
    << <<"A+", 90, 100>>, <<"A", 80, 89>>, <<"B", 70, 79>>, <<"C", 60, 69>>, <<"D", 0, 59>> >>

\* "ford_focus", "volkswagen_golf" and "bmw_3 series" in the model's alphabet
kFordFocus == <<"f", "o", "_", "f", "x">>
kBmw3 == <<"b", "m", "_", "3">>

SAMPLE_MARKET_DATA ==
    (kFordFocus :> [y \in 2015..2022 |->
        CASE y = 2015 -> 8000 [] y = 2016 -> 9000 [] y = 2017 -> 10500
          [] y = 2018 -> 12000 [] y = 2019 -> 14000 [] y = 2020 -> 16000
          [] y = 2021 -> 18000 [] OTHER -> 20000])
    @@ (kBmw3 :> [y \in 2015..2022 |->
        CASE y = 2015 -> 12000 [] y = 2016 -> 14000 [] y = 2017 -> 16000
          [] y = 2018 -> 19000 [] y = 2019 -> 22000 [] y = 2020 -> 25000
          [] y = 2021 -> 29000 [] OTHER -> 33000])

-----------------------------------------------------------------------------
(* ScoringEngine *)

Ok(v) == [ok |-> TRUE, val |-> v]
Raise == [ok |-> FALSE, val |-> <<>>]

\* dict.update: the keys of new replace those of d
Update(d, new) ==
    new @@ d

\* `not x` for a numeric field: None and 0 are falsy
Falsy(x) ==
    x = NoInt \/ x = 0

\* a variant whose price threshold includes 500
_is_suspicious_inclusive(listing, current_year) ==
    LET price == listing.price
        year == listing.year
        car_age == current_year - year
    IN IF price # NoInt /\ price <= 500 THEN TRUE
       ELSE IF listing.make \in {Absent, Null} \/ listing.model \in {Absent, Null} THEN TRUE
       ELSE IF year # NoInt /\ price # NoInt
            THEN IF car_age <= 3 /\ price < 3000 THEN TRUE
                 ELSE IF car_age <= 10 /\ price < 1000 THEN TRUE
                 ELSE FALSE
       ELSE FALSE

\* a variant without the rule for cars of up to 10 years
_is_suspicious_young_only(listing, current_year) ==
    LET price == listing.price
        year == listing.year
        car_age == current_year - year
    IN IF price # NoInt /\ price < 500 THEN TRUE
       ELSE IF listing.make \in {Absent, Null} \/ listing.model \in {Absent, Null} THEN TRUE
       ELSE IF year # NoInt /\ price # NoInt
            THEN IF car_age <= 3 /\ price < 3000 THEN TRUE
                 ELSE FALSE
       ELSE FALSE

_is_suspicious(listing, current_year) ==
    LET price == listing.price
        year == listing.year
        car_age == current_year - year
    IN IF price # NoInt /\ price < 500 THEN TRUE
       ELSE IF listing.make \in {Absent, Null} \/ listing.model \in {Absent, Null} THEN TRUE
       ELSE IF year # NoInt /\ price # NoInt
            THEN IF car_age <= 3 /\ price < 3000 THEN TRUE
                 ELSE IF car_age <= 10 /\ price < 1000 THEN TRUE
                 ELSE FALSE
       ELSE FALSE

\* None, or the average as a rational
NoAverage == [some |-> FALSE, val |-> R(0)]

\* the interpolation between the two known years around year
Interpolate(model_data, year) ==
    LET available_years == DOMAIN model_data
        year1 == CHOOSE y \in available_years :
                    y <= year /\ \A z \in available_years : z <= year => z <= y
        year2 == CHOOSE y \in available_years :
                    y > year /\ \A z \in available_years : z > year => y <= z
        price1 == model_data[year1]
        price2 == model_data[year2]
        fraction == Rat(year - year1, year2 - year1)
    IN RAdd(R(price1), RMul(fraction, R(price2 - price1)))


\* a variant that knows the tabulated years only
YearAverageExact(model_data, year) ==
    IF year \in DOMAIN model_data THEN [some |-> TRUE, val |-> R(model_data[year])]
    ELSE NoAverage

\* the years of one make/model: the year itself, else between two known years
YearAverage(model_data, year) ==
    IF year \in DOMAIN model_data THEN [some |-> TRUE, val |-> R(model_data[year])]
    ELSE IF DOMAIN model_data = {} THEN NoAverage
    ELSE IF \A y \in DOMAIN model_data : year < y THEN NoAverage
    ELSE IF \A y \in DOMAIN model_data : year > y THEN NoAverage
    ELSE [some |-> TRUE, val |-> Interpolate(model_data, year)]

_get_market_average(market_data, make, model, year) ==
    LET make_model_key == Lower(make) \o <<"_">> \o Lower(model)
    IN IF DOMAIN market_data = {} THEN NoAverage
       ELSE IF make_model_key \notin DOMAIN market_data THEN NoAverage
       ELSE YearAverage(market_data[make_model_key], year)

\* a variant of the market-data path without its cap at 100 below half the
\* market average
PriceCurveUncapped(price_ratio) ==
    IF RLe(price_ratio, Rat(9, 10))
    THEN RSub(R(90), RMul(RSub(price_ratio, Rat(1, 2)), R(75)))
    ELSE IF RLe(price_ratio, Rat(11, 10))
         THEN RSub(R(60), RMul(RSub(price_ratio, Rat(9, 10)), R(100)))
    ELSE IF RLe(price_ratio, Rat(3, 2))
         THEN RSub(R(40), RMul(RSub(price_ratio, Rat(11, 10)), R(75)))
    ELSE R(10)

\* the ratios at which the market-data path changes band: band b ends at
\* PriceSeams[b], the last band has no end
PriceSeams == <<Rat(1, 2), Rat(9, 10), Rat(11, 10), Rat(3, 2)>>

\* a variant whose second band starts from 100
PriceBandFromHundred(b, price_ratio) ==
    CASE b = 1 -> R(100)
      [] b = 2 -> RSub(R(100), RMul(RSub(price_ratio, Rat(1, 2)), R(75)))
      [] b = 3 -> RSub(R(60), RMul(RSub(price_ratio, Rat(9, 10)), R(100)))
      [] b = 4 -> RSub(R(40), RMul(RSub(price_ratio, Rat(11, 10)), R(75)))
      [] OTHER -> R(10)


\* a variant whose third band rises with the ratio
PriceBandRising(b, price_ratio) ==
    CASE b = 1 -> R(100)
      [] b = 2 -> RSub(R(90), RMul(RSub(price_ratio, Rat(1, 2)), R(75)))
      [] b = 3 -> RAdd(R(60), RMul(RSub(price_ratio, Rat(9, 10)), R(100)))
      [] b = 4 -> RSub(R(40), RMul(RSub(price_ratio, Rat(11, 10)), R(75)))
      [] OTHER -> R(10)

\* the return expression of band b of the market-data path
PriceBand(b, price_ratio) ==
    CASE b = 1 -> R(100)
      [] b = 2 -> RSub(R(90), RMul(RSub(price_ratio, Rat(1, 2)), R(75)))
      [] b = 3 -> RSub(R(60), RMul(RSub(price_ratio, Rat(9, 10)), R(100)))
      [] b = 4 -> RSub(R(40), RMul(RSub(price_ratio, Rat(11, 10)), R(75)))
      [] OTHER -> R(10)

\* the if/elif chain of the market-data path, on price_ratio
PriceCurve(price_ratio) ==
    IF RLe(price_ratio, PriceSeams[1]) THEN PriceBand(1, price_ratio)
    ELSE IF RLe(price_ratio, PriceSeams[2]) THEN PriceBand(2, price_ratio)
    ELSE IF RLe(price_ratio, PriceSeams[3]) THEN PriceBand(3, price_ratio)
    ELSE IF RLe(price_ratio, PriceSeams[4]) THEN PriceBand(4, price_ratio)
    ELSE PriceBand(5, price_ratio)

\* the steps of the depreciation path, on price_ratio
FallbackCurve(price_ratio) ==
    IF RLe(price_ratio, Rat(7, 10)) THEN R(90)
    ELSE IF RLe(price_ratio, Rat(9, 10)) THEN R(70)
    ELSE IF RLe(price_ratio, Rat(11, 10)) THEN R(50)
    ELSE IF RLe(price_ratio, Rat(13, 10)) THEN R(30)
    ELSE R(10)

\* min(PRICE_DEPRECIATION.keys(), key=lambda k: abs(k - car_age)): the first
\* key, in table order, at the least distance
ClosestDepreciationAge(car_age) ==
    LET keys == DOMAIN PRICE_DEPRECIATION
    IN CHOOSE k \in keys :
          /\ \A j \in keys : Abs(k - car_age) <= Abs(j - car_age)
          /\ \A j \in keys : Abs(j - car_age) = Abs(k - car_age) => k <= j


\* a variant that compares the price with the estimated original price
DepreciationScoreOriginal(price, depreciation_factor) ==
    LET estimated_original_price == RDiv(R(price), depreciation_factor)
    IN FallbackCurve(RDiv(R(price), estimated_original_price))

\* the depreciation path: the price against the expected price derived from it
DepreciationScore(price, depreciation_factor) ==
    LET estimated_original_price == RDiv(R(price), depreciation_factor)
        expected_price == RMul(estimated_original_price, depreciation_factor)
    IN FallbackCurve(RDiv(R(price), expected_price))

\* the price score once the market average is looked up
PriceScoreFrom(price, year, market_average, current_year) ==
    IF market_average.some /\ market_average.val # R(0)
    THEN PriceCurve(RDiv(R(price), market_average.val))
    ELSE IF current_year - year < 0 THEN R(50)
    ELSE DepreciationScore(price,
            Rat(PRICE_DEPRECIATION[ClosestDepreciationAge(current_year - year)], 100))

_calculate_price_score(listing, market_data, current_year) ==
    LET price == listing.price
        make == Lower(Get(listing.make, <<>>))
        model == Lower(Get(listing.model, <<>>))
        year == listing.year
    IN IF Falsy(price) \/ make = <<>> \/ model = <<>> \/ Falsy(year) THEN R(50)
       ELSE PriceScoreFrom(price, year,
                _get_market_average(market_data, make, model, year), current_year)

\* expected mileage at a whole-number age >= 0 (every age 1..20 is tabulated,
\* so the interpolation between two tabulated ages is never taken)
ExpectedMileage(car_age) ==
    IF car_age \in DOMAIN TYPICAL_MILEAGE THEN R(TYPICAL_MILEAGE[car_age])
    ELSE IF car_age < 1 THEN RMul(R(TYPICAL_MILEAGE[1]), Rat(car_age, 1))
    ELSE R(TYPICAL_MILEAGE[20] + 5000 * (car_age - 20))

\* the ratios at which the mileage curve changes band: band b ends at
\* MileageSeams[b], the last band has no end
MileageSeams == <<Rat(1, 2), Rat(9, 10), Rat(11, 10), Rat(3, 2)>>

\* a variant whose second band rises by 100 a unit
MileageBandSteeper(b, mileage_ratio) ==
    CASE b = 1 -> R(90)
      [] b = 2 -> RAdd(R(55), RMul(RSub(Rat(9, 10), mileage_ratio), R(100)))
      [] b = 3 -> RSub(R(55), RMul(RSub(mileage_ratio, Rat(9, 10)), R(50)))
      [] b = 4 -> RSub(R(45), RMul(RSub(mileage_ratio, Rat(11, 10)), Rat(175, 2)))
      [] OTHER -> R(10)

\* the return expression of band b of the mileage curve
MileageBand(b, mileage_ratio) ==
    CASE b = 1 -> R(90)
      [] b = 2 -> RAdd(R(55), RMul(RSub(Rat(9, 10), mileage_ratio), Rat(175, 2)))
      [] b = 3 -> RSub(R(55), RMul(RSub(mileage_ratio, Rat(9, 10)), R(50)))
      [] b = 4 -> RSub(R(45), RMul(RSub(mileage_ratio, Rat(11, 10)), Rat(175, 2)))
      [] OTHER -> R(10)

\* the if/elif chain on mileage_ratio
MileageCurve(mileage_ratio) ==
    IF RLe(mileage_ratio, MileageSeams[1]) THEN MileageBand(1, mileage_ratio)
    ELSE IF RLe(mileage_ratio, MileageSeams[2]) THEN MileageBand(2, mileage_ratio)
    ELSE IF RLe(mileage_ratio, MileageSeams[3]) THEN MileageBand(3, mileage_ratio)
    ELSE IF RLe(mileage_ratio, MileageSeams[4]) THEN MileageBand(4, mileage_ratio)
    ELSE MileageBand(5, mileage_ratio)

\* mileage / expected_mileage and the curve: raises on a non-numeric mileage
\* (TypeError) and on an expected mileage of 0 (ZeroDivisionError)
MileageScoreFrom(mileage, expected_mileage) ==
    IF mileage = BadNum \/ expected_mileage = R(0) THEN Raise
    ELSE Ok(MileageCurve(RDiv(R(mileage), expected_mileage)))


\* a variant that scores a missing mileage or year as 0
_calculate_mileage_score_zero(listing, current_year) ==
    LET mileage == listing.mileage
        year == listing.year
        car_age == current_year - year
    IN IF Falsy(mileage) \/ Falsy(year) THEN Ok(R(0))
       ELSE IF car_age < 0 THEN Ok(R(50))
       ELSE MileageScoreFrom(mileage, ExpectedMileage(car_age))

_calculate_mileage_score(listing, current_year) ==
    LET mileage == listing.mileage
        year == listing.year
        car_age == current_year - year
    IN IF Falsy(mileage) \/ Falsy(year) THEN Ok(R(50))
       ELSE IF car_age < 0 THEN Ok(R(50))
       ELSE MileageScoreFrom(mileage, ExpectedMileage(car_age))

RECURSIVE GradeFrom(_, _)
GradeFrom(score, i) ==
    IF i > Len(GRADE_RANGES) THEN "F"
    ELSE IF RLe(R(GRADE_RANGES[i][2]), score) /\ RLe(score, R(GRADE_RANGES[i][3]))
         THEN GRADE_RANGES[i][1]
    ELSE GradeFrom(score, i + 1)

_get_grade(score) ==
    IF RLt(score, R(0)) THEN "F" ELSE GradeFrom(score, 1)

\* a variant with the two weights exchanged
OverallScoreSwapped(price_score, mileage_score) ==
    RAdd(RMul(price_score, Rat(4, 10)), RMul(mileage_score, Rat(6, 10)))

\* the weighted average: price is 60% of the score, mileage is 40%
OverallScore(price_score, mileage_score) ==
    RAdd(RMul(price_score, Rat(6, 10)), RMul(mileage_score, Rat(4, 10)))

\* the scores added to the copy of the listing
WithScores(listing, price_score, mileage_score, overall_score) ==
    Update(listing,
        [score |-> Round1(overall_score), grade |-> _get_grade(overall_score),
         score_details |-> [price_score |-> Round1(price_score),
                            mileage_score |-> Round1(mileage_score),
                            suspicious |-> FALSE]])

\* score_listing past the suspicious check
ScoreFrom(listing, price_score, mileage) ==
    IF ~mileage.ok THEN Raise
    ELSE Ok(WithScores(listing, price_score, mileage.val,
                       OverallScore(price_score, mileage.val)))

\* a variant that grades a suspicious listing's score of 0 through _get_grade
score_listing_graded(listing, market_data, current_year) ==
    IF _is_suspicious(listing, current_year)
    THEN Ok(Update(listing,
            [score |-> 0, grade |-> _get_grade(R(0)),
             score_details |-> [price_score |-> 0, mileage_score |-> 0, suspicious |-> TRUE,
                                reasons |-> <<"Suspiciously low price or missing critical information">>]]))
    ELSE ScoreFrom(listing,
            _calculate_price_score(listing, market_data, current_year),
            _calculate_mileage_score(listing, current_year))

score_listing(listing, market_data, current_year) ==
    IF _is_suspicious(listing, current_year)
    THEN Ok(Update(listing,
            [score |-> 0, grade |-> "F",
             score_details |-> [price_score |-> 0, mileage_score |-> 0, suspicious |-> TRUE,
                                reasons |-> <<"Suspiciously low price or missing critical information">>]]))
    ELSE ScoreFrom(listing,
            _calculate_price_score(listing, market_data, current_year),
            _calculate_mileage_score(listing, current_year))

\* a variant whose except branch appends a zero-scored copy of the listing
ScoredOrZero(scored_listing, listing) ==
    IF scored_listing.ok THEN scored_listing.val
    ELSE Update(listing, [score |-> 0, grade |-> "F"])

\* try: the scored listing; except: the unscored listing, to keep the length
ScoredOrUnscored(scored_listing, listing) ==
    IF scored_listing.ok THEN scored_listing.val ELSE listing

RECURSIVE batch_score_listings(_, _, _)
batch_score_listings(ls, market_data, current_year) ==
    IF ls = <<>> THEN <<>>
    ELSE <<ScoredOrUnscored(score_listing(Head(ls), market_data, current_year), Head(ls))>>
         \o batch_score_listings(Tail(ls), market_data, current_year)

-----------------------------------------------------------------------------
(* MatchingEngine *)

sAny == <<"a", "n", "y">>
sNone == <<"N", "o", "n", "e">>

\* str(x) of a text value or None
Str(v) ==
    IF v = Null THEN sNone ELSE v

_extract_location(location_str) ==
    IF Contains(<<":">>, location_str)
    THEN Lower(Strip(SplitSecond(location_str)))
    ELSE Lower(Strip(location_str))

\* a criterion the preference specifies: not empty and not 'any'
Specified(criterion) ==
    criterion # <<>> /\ Lower(criterion) # sAny

\* the city names overlap, or one of them cannot be extracted
CitiesOverlap(location_city, listing_location_city) ==
    IF location_city # <<>> /\ listing_location_city # <<>>
    THEN ~(/\ ~Contains(location_city, listing_location_city)
           /\ ~Contains(listing_location_city, location_city))
    ELSE TRUE

LocationMatch(listing, location) ==
    IF Specified(location)
    THEN CitiesOverlap(_extract_location(location),
                       _extract_location(Lower(Get(listing.location, <<>>))))
    ELSE TRUE

\* fuel type and transmission: the listing's value, when it has one, must
\* contain the preference's
ValueMatch(listing_value, criterion) ==
    IF Specified(criterion)
    THEN ~(Lower(Get(listing_value, <<>>)) # <<>>
           /\ ~Contains(criterion, Lower(Get(listing_value, <<>>))))
    ELSE TRUE

\* .lower() on a None field of the listing raises AttributeError
SoftRaises(listing, location, fuel_type, transmission) ==
    \/ Specified(location) /\ listing.location = Null
    \/ Specified(fuel_type) /\ listing.fuel_type = Null
    \/ Specified(transmission) /\ listing.transmission = Null

\* the score and grade added to the match details if present
WithScore(listing, match_details) ==
    IF "score" \in DOMAIN listing
    THEN Update(match_details, [score |-> listing.score, grade |-> listing.grade])
    ELSE match_details

\* a variant in which only the four mandatory criteria decide is_match
VerdictMandatoryOnly(listing, match_details) ==
    [ok |-> TRUE,
     match |-> /\ match_details.make_match /\ match_details.model_match
               /\ match_details.year_match /\ match_details.price_match,
     details |-> WithScore(listing, match_details)]

\* is_match: all required fields match
Verdict(listing, match_details) ==
    [ok |-> TRUE,
     match |-> /\ match_details.make_match /\ match_details.model_match
               /\ match_details.year_match /\ match_details.price_match
               /\ match_details.location_match /\ match_details.fuel_type_match
               /\ match_details.transmission_match,
     details |-> WithScore(listing, match_details)]

RaiseMatch == [ok |-> FALSE, match |-> FALSE, details |-> <<>>]
NoMatch(match_details) == [ok |-> TRUE, match |-> FALSE, details |-> match_details]

\* the soft criteria and the verdict, once the four mandatory ones passed
CheckSoft(listing, location, fuel_type, transmission) ==
    IF SoftRaises(listing, location, fuel_type, transmission) THEN RaiseMatch
    ELSE Verdict(listing,
            [make_match |-> TRUE, model_match |-> TRUE, year_match |-> TRUE,
             price_match |-> TRUE,
             location_match |-> LocationMatch(listing, location),
             fuel_type_match |-> ValueMatch(listing.fuel_type, fuel_type),
             transmission_match |-> ValueMatch(listing.transmission, transmission)])

\* a variant without the exemption of 'any'
NameMismatchNoAny(criterion, listing_value) ==
    /\ criterion # <<>> /\ listing_value # <<>>
    /\ ~Contains(criterion, listing_value) /\ ~Contains(listing_value, criterion)

\* make and model: must match unless the preference is 'any' or either is empty
NameMismatch(criterion, listing_value) ==
    /\ criterion # sAny /\ criterion # <<>> /\ listing_value # <<>>
    /\ ~Contains(criterion, listing_value) /\ ~Contains(listing_value, criterion)

\* a variant that compares the value with the lower end twice
OutOfRangeLowerTwice(listing_value, lo, hi) ==
    ~Falsy(listing_value) /\ (listing_value < lo \/ listing_value > lo)

\* a variant that checks only the lower end of the range
OutOfRangeBelow(listing_value, lo, hi) ==
    ~Falsy(listing_value) /\ listing_value < lo

\* year and price: a present, non-zero value must lie in the range
OutOfRange(listing_value, lo, hi) ==
    ~Falsy(listing_value) /\ (listing_value < lo \/ listing_value > hi)

_check_match(listing, make, model, min_year, max_year, min_price, max_price, location, fuel_type, transmission) ==
    IF "score_details" \in DOMAIN listing /\ listing.score_details.suspicious
    THEN NoMatch(<<>>)
    ELSE IF listing.make = Null THEN RaiseMatch
    ELSE IF NameMismatch(make, Lower(Get(listing.make, <<>>))) THEN NoMatch(<<>>)
    ELSE IF listing.model = Null THEN RaiseMatch
    ELSE IF NameMismatch(model, Lower(Get(listing.model, <<>>)))
         THEN NoMatch([make_match |-> TRUE])
    ELSE IF OutOfRange(listing.year, min_year, max_year)
         THEN NoMatch([make_match |-> TRUE, model_match |-> TRUE])
    ELSE IF OutOfRange(listing.price, min_price, max_price)
         THEN NoMatch([make_match |-> TRUE, model_match |-> TRUE, year_match |-> TRUE])
    ELSE CheckSoft(listing, location, fuel_type, transmission)

\* preference.get(key, default) for a numeric key
GetInt(v, default) ==
    IF v = NoInt THEN default ELSE v

\* _check_match with the criteria extracted from the preference
CheckPreference(listing, preference) ==
    _check_match(listing,
        Lower(Get(preference.make, <<>>)),
        Lower(Get(preference.model, <<>>)),
        GetInt(preference.min_year, 0),
        GetInt(preference.max_year, 9999),
        GetInt(preference.min_price, 0),
        GetInt(preference.max_price, 9999999),
        Lower(Get(preference.location, <<>>)),
        Lower(Get(preference.fuel_type, sAny)),
        Lower(Get(preference.transmission, sAny)))

\* a variant that looks for the preference's id in matched_to
AlreadyMatchedPreference(listing, preference) ==
    /\ listing.matched_to # Absent
    /\ Contains(Str(Get(preference.id, <<>>)), Str(listing.matched_to))

\* the listing was already matched/alerted for this user
AlreadyMatched(listing, preference) ==
    /\ listing.matched_to # Absent
    /\ Contains(Str(Get(preference.user_id, <<>>)), Str(listing.matched_to))

\* the copy of the listing added to the matches
ListingCopy(listing, preference, match_details) ==
    Update(listing,
        [match_details |-> match_details,
         preference_id |-> Get(preference.id, <<>>),
         user_id |-> Get(preference.user_id, <<>>)])

\* one listing's verdict and the matches of the listings after it
AppendMatch(listing, preference, checked, rest) ==
    IF ~checked.ok \/ ~rest.ok THEN Raise
    ELSE IF checked.match
         THEN Ok(<<ListingCopy(listing, preference, checked.details)>> \o rest.val)
    ELSE rest

RECURSIVE MatchEach(_, _)
MatchEach(ls, preference) ==
    IF ls = <<>> THEN Ok(<<>>)
    ELSE IF AlreadyMatched(Head(ls), preference) THEN MatchEach(Tail(ls), preference)
    ELSE AppendMatch(Head(ls), preference, CheckPreference(Head(ls), preference),
                     MatchEach(Tail(ls), preference))

\* .lower() on a None criterion of the preference raises AttributeError
match_listings_to_preference(ls, preference) ==
    IF Null \in {preference.make, preference.model, preference.location,
                 preference.fuel_type, preference.transmission}
    THEN Raise
    ELSE MatchEach(ls, preference)

\* x.get('score', 0), in tenths
ScoreKey(x) ==
    IF "score" \in DOMAIN x THEN x.score ELSE 0

\* x.get('price', 0)
PriceKey(x) ==
    GetInt(x.price, 0)

\* a goes before b: by score, descending (reverse=True), or by price, ascending
Before(a, b, byScore) ==
    IF byScore THEN ScoreKey(a) > ScoreKey(b) ELSE PriceKey(a) < PriceKey(b)

\* sorted(): stable, elements with equal keys keep their order
RECURSIVE InsertSorted(_, _, _)
InsertSorted(x, sq, byScore) ==
    IF sq = <<>> THEN <<x>>
    ELSE IF Before(x, Head(sq), byScore) THEN <<x>> \o sq
    ELSE <<Head(sq)>> \o InsertSorted(x, Tail(sq), byScore)

RECURSIVE Sorted(_, _)
Sorted(sq, byScore) ==
    IF sq = <<>> THEN <<>>
    ELSE InsertSorted(sq[Len(sq)], Sorted(SubSeq(sq, 1, Len(sq) - 1), byScore), byScore)

\* by score when the first match carries one, else by price
SortMatches(user_matches) ==
    Sorted(user_matches, user_matches # <<>> /\ "score" \in DOMAIN user_matches[1])

\* a variant that skips no preference
NoUserNever(preference) ==
    FALSE

\* `not user_id`
NoUser(preference) ==
    preference.user_id \in {Absent, Null, <<>>}

EmptyMap == [u \in {} |-> <<>>]

\* a variant that enters the user whether or not there are matches
ExtendAlways(matches, user_id_str, user_matches) ==
    (user_id_str :> ((IF user_id_str \in DOMAIN matches
                      THEN matches[user_id_str] ELSE <<>>) \o user_matches))
    @@ matches

\* matches[user_id_str].extend(user_matches), only for users with matches
Extend(matches, user_id_str, user_matches) ==
    IF user_matches = <<>> THEN matches
    ELSE (user_id_str :> ((IF user_id_str \in DOMAIN matches
                           THEN matches[user_id_str] ELSE <<>>) \o user_matches))
         @@ matches

RECURSIVE Collect(_, _, _)
RECURSIVE CollectFrom(_, _, _, _)
CollectFrom(ps, scored_listings, matches, user_matches) ==
    IF ~user_matches.ok THEN Raise
    ELSE Collect(Tail(ps), scored_listings,
                 Extend(matches, Str(Head(ps).user_id), user_matches.val))

\* the loop over the preferences
Collect(ps, scored_listings, matches) ==
    IF ps = <<>> THEN Ok(matches)
    ELSE IF NoUser(Head(ps)) THEN Collect(Tail(ps), scored_listings, matches)
    ELSE CollectFrom(ps, scored_listings, matches,
                     match_listings_to_preference(scored_listings, Head(ps)))

\* MatchingEngine.__init__: market_data or SAMPLE_MARKET_DATA
EngineMarket(market_data) ==
    IF DOMAIN market_data = {} THEN SAMPLE_MARKET_DATA ELSE market_data

\* each user's matches sorted
SortAll(matches) ==
    IF ~matches.ok THEN Raise
    ELSE Ok([u \in DOMAIN matches.val |-> SortMatches(matches.val[u])])

find_matches(ls, user_preferences, market_data, current_year) ==
    SortAll(Collect(user_preferences,
                    batch_score_listings(ls, EngineMarket(market_data), current_year),
                    EmptyMap))

-----------------------------------------------------------------------------
(* The inputs the runs are checked on *)

\* bounds
MaxListings == 3
MaxPrefs == 2
MaxMarks == 1
MaxYears == 1
Resolution == 10

\* the calendar year of the run
ThisYear == 2026

sFord == <<"F", "o">>
sFocus == <<"F", "x">>
sBMW == <<"B", "M">>
s3Series == <<"3">>
sLondonUK == <<"L", "d", ",", " ", "U", "K">>
sManchesterUK == <<"M", "a", ",", " ", "U", "K">>
sUKLondon == <<"U", "K", ":", " ", "L", "d">>
sDiesel == <<"D", "l">>
sPetrol == <<"P", "l">>
sAutomatic == <<"A", "u">>
sManual == <<"M", "a">>
sAnyCap == <<"A", "n", "y">>
u12 == <<"1", "2">>
u45 == <<"4", "5">>
Users == {u12, u45}

Listing(id, make, model, year, price, mileage, location, fuel_type, transmission, matched_to) ==
    [id |-> id, make |-> make, model |-> model, year |-> year, price |-> price,
     mileage |-> mileage, location |-> location, fuel_type |-> fuel_type,
     transmission |-> transmission, matched_to |-> matched_to]

Preference(id, user_id, make, model, min_year, max_year, min_price, max_price, location, fuel_type, transmission) ==
    [id |-> id, user_id |-> user_id, make |-> make, model |-> model,
     min_year |-> min_year, max_year |-> max_year, min_price |-> min_price,
     max_price |-> max_price, location |-> location, fuel_type |-> fuel_type,
     transmission |-> transmission]

\* market_data tables: none, the sample, and one with a gap between its years
NoMarket == [k \in {} |-> <<>>]
GapMarket == kFordFocus :> ((2015 :> 8000) @@ (2018 :> 12000))
\* a table without the Ford Focus
BmwMarket == kBmw3 :> SAMPLE_MARKET_DATA[kBmw3]
Markets == {NoMarket, SAMPLE_MARKET_DATA, GapMarket, BmwMarket}

\* the listings of a matching run:
\*   1  the tests' Ford Focus in Manchester (petrol, manual)
\*   2  a cheaper BMW in London with a very high mileage (diesel, automatic)
\*   3  a Ford Focus of the current year: scoring it raises, it stays unscored
\*   4  a Ford Focus with the None fuel type and transmission the autotrader
\*      scraper writes, and no mileage
\*   5  a Ford Focus at a suspicious price
ListingPool ==
    { Listing(<<"1">>, sFord, sFocus, 2018, 7500, 45000, sManchesterUK, sPetrol, sManual, Absent),
      Listing(<<"2">>, sBMW, s3Series, 2017, 7000, 200000, sLondonUK, sDiesel, sAutomatic, Absent),
      Listing(<<"3">>, sFord, sFocus, ThisYear, 9000, 5000, Absent, Absent, Absent, Absent),
      Listing(<<"4">>, sFord, sFocus, 2017, 8000, NoInt, sLondonUK, Null, Null, Absent),
      Listing(<<"5">>, sFord, sFocus, 2022, 500, 5000, sLondonUK, sDiesel, sAutomatic, Absent) }

\* the preferences of a matching run:
\*   a  user 12: Ford Focus 2015-2020, 5000-10000, in London
\*   b  user 12: any car from 2015 on
\*   c  user 45: any diesel automatic 2015-2020, 5000-10000
\*   e  a preference without a user_id
PrefPool ==
    { Preference(<<"a">>, u12, sFord, sFocus, 2015, 2020, 5000, 10000, sUKLondon, sAnyCap, sAnyCap),
      Preference(<<"b">>, u12, sAnyCap, Absent, 2015, ThisYear, NoInt, NoInt, Absent, Absent, Absent),
      Preference(<<"c">>, u45, sAnyCap, Absent, 2015, 2020, 5000, 10000, sAnyCap, sDiesel, sAutomatic),
      Preference(<<"e">>, Absent, sFord, sFocus, 2015, 2020, 5000, 10000, sAnyCap, sAnyCap, sAnyCap) }

\* the lists of up to n elements of S: a snapshot holds each listing, and
\* each preference, once
SeqsUpTo(S, n) ==
    {sq \in UNION {[1..k -> S] : k \in 0..n} :
        \A i \in DOMAIN sq : \A j \in DOMAIN sq : i # j => sq[i] # sq[j]}

\* the listings of a scoring batch: those above and one whose mileage is not
\* a number
BatchPool ==
    ListingPool \cup
    { Listing(<<"6">>, sFord, sFocus, 2016, 6000, BadNum, sLondonUK, sDiesel, sAutomatic, Absent) }

\* the listings score_listing is checked on, one at a time: every mix of
\* present, missing and boundary values, and a listing whose overall score
\* lies just above a whole number
ScoreListings ==
    { Listing(<<"1">>, make, model, year, price, mileage, Absent, Absent, Absent, Absent) :
        make \in {sFord, Null, Absent},
        model \in {sFocus, Absent},
        year \in {NoInt, 2005, 2015, 2016, 2018, 2022, 2024, ThisYear, ThisYear + 1},
        price \in {NoInt, 0, 499, 500, 999, 1000, 2999, 3000, 7500, 12000, 30000},
        mileage \in {NoInt, 0, 5000, 45000, 80000, 200000, BadNum} } \cup
    { Listing(<<"1">>, sFord, sFocus, 2015, 4500, 105000, Absent, Absent, Absent, Absent) }

NotRun == [ok |-> FALSE, val |-> <<"not run">>]

-----------------------------------------------------------------------------
(* The runs *)

\* a matching run's caller: a snapshot of listings and active preferences
Init ==
    /\ now = ThisYear
    /\ market \in {NoMarket, GapMarket}
    /\ listings \in SeqsUpTo(ListingPool, MaxListings)
    /\ prefs \in SeqsUpTo(PrefPool, MaxPrefs)
    /\ scored = <<>>
    /\ out = NotRun
    /\ result = NotRun
    /\ gradeArg = R(0)
    /\ gradeRes = ""
    /\ matched = <<>>
    /\ curveArg = R(0)
    /\ curveRes = R(0)
    /\ pc = "init"
    /\ marks = 0


\* a variant in which the scores are written into the caller's listings
FindMatchesInPlace ==
    /\ pc \in {"init", "marked"}
    /\ out' = find_matches(listings, prefs, market, now)
    /\ listings' = batch_score_listings(listings, EngineMarket(market), now)
    /\ pc' = "find_matches"
    /\ UNCHANGED <<now, market, prefs, scored, result, gradeArg, gradeRes, marks, matched, curveArg, curveRes>>

\* matching_engine.find_matches(listings, preferences): one scheduler tick
FindMatches ==
    /\ pc \in {"init", "marked"}
    /\ out' = find_matches(listings, prefs, market, now)
    /\ pc' = "find_matches"
    /\ UNCHANGED <<now, market, listings, prefs, scored, result, gradeArg, gradeRes, marks, matched, curveArg, curveRes>>

\* the ids of the listings in the match list of user u
MatchedIds(o, u) ==
    IF o.ok /\ u \in DOMAIN o.val THEN {o.val[u][i].id : i \in 1..Len(o.val[u])} ELSE {}

\* between two runs the persistence layer marks a listing of the last run's
\* output as notified to its user
MarkNotified(id, u) ==
    /\ pc = "find_matches"
    /\ marks < MaxMarks
    /\ id \in MatchedIds(out, u)
    /\ listings' = [j \in 1..Len(listings) |->
                        IF listings[j].id = id
                        THEN [listings[j] EXCEPT !.matched_to =
                                    IF @ = Absent THEN u ELSE @ \o <<",">> \o u]
                        ELSE listings[j]]
    /\ marks' = marks + 1
    /\ pc' = "marked"
    /\ UNCHANGED <<now, market, prefs, scored, out, result, gradeArg, gradeRes, matched, curveArg, curveRes>>

Next ==
    \/ FindMatches
    \/ \E i \in 1..Len(listings) : \E u \in Users : MarkNotified(listings[i].id, u)

Spec == Init /\ [][Next]_vars

\* batch_score_listings on a list of listings
InitBatch ==
    /\ now = ThisYear
    /\ market \in Markets
    /\ listings \in SeqsUpTo(BatchPool, MaxListings)
    /\ prefs = <<>>
    /\ scored = <<>>
    /\ out = NotRun
    /\ result = NotRun
    /\ gradeArg = R(0)
    /\ gradeRes = ""
    /\ matched = <<>>
    /\ curveArg = R(0)
    /\ curveRes = R(0)
    /\ pc = "init"
    /\ marks = 0

\* scoring_engine.batch_score_listings(listings)
BatchScore ==
    /\ pc = "init"
    /\ scored' = batch_score_listings(listings, market, now)
    /\ pc' = "batch_score_listings"
    /\ UNCHANGED <<now, market, listings, prefs, out, result, gradeArg, gradeRes, marks, matched, curveArg, curveRes>>

NextBatch ==
    BatchScore

SpecBatch == InitBatch /\ [][NextBatch]_vars

\* score_listing on one listing, called again after each change of year
InitScore ==
    /\ now = ThisYear
    /\ market \in Markets
    /\ listings \in {<<l>> : l \in ScoreListings}
    /\ prefs = <<>>
    /\ scored = <<>>
    /\ out = NotRun
    /\ result = NotRun
    /\ gradeArg = R(0)
    /\ gradeRes = ""
    /\ matched = <<>>
    /\ curveArg = R(0)
    /\ curveRes = R(0)
    /\ pc = "init"
    /\ marks = 0

\* scoring_engine.score_listing(listing)
ScoreListing ==
    /\ pc \in {"init", "new_year"}
    /\ result' = score_listing(listings[1], market, now)
    /\ pc' = "score_listing"
    /\ UNCHANGED <<now, market, listings, prefs, scored, out, gradeArg, gradeRes, marks, matched, curveArg, curveRes>>

\* the calendar year changes between two calls: datetime.now().year
NewYear ==
    /\ pc = "score_listing"
    /\ now < ThisYear + MaxYears
    /\ now' = now + 1
    /\ pc' = "new_year"
    /\ UNCHANGED <<market, listings, prefs, scored, out, result, gradeArg, gradeRes, marks, matched, curveArg, curveRes>>

NextScore ==
    \/ ScoreListing
    \/ NewYear

SpecScore == InitScore /\ [][NextScore]_vars

\* _get_grade on a score in [0, 100], in steps of 1/Resolution
InitGrade ==
    /\ now = ThisYear
    /\ market = NoMarket
    /\ listings = <<>>
    /\ prefs = <<>>
    /\ scored = <<>>
    /\ out = NotRun
    /\ result = NotRun
    /\ gradeArg = R(0)
    /\ gradeRes = ""
    /\ matched = <<>>
    /\ curveArg = R(0)
    /\ curveRes = R(0)
    /\ pc = "init"
    /\ marks = 0

\* scoring_engine._get_grade(score)
GetGrade(score) ==
    /\ pc = "init"
    /\ gradeArg' = score
    /\ gradeRes' = _get_grade(score)
    /\ pc' = "get_grade"
    /\ UNCHANGED <<now, market, listings, prefs, scored, out, result, marks, matched, curveArg, curveRes>>

NextGrade ==
    \E n \in 0..(100 * Resolution) : GetGrade(Rat(n, Resolution))

SpecGrade == InitGrade /\ [][NextGrade]_vars

\* the id of a third user, which contains the id of the user 12
u123 == <<"1", "2", "3">>

\* the listings a pair of preferences is matched against: those of the
\* pool and a diesel Ford Focus in London at the lower end of a range, once
\* unmarked, once marked as notified to the user 123 and once to the user 12
MatchListings ==
    ListingPool \cup
    { Listing(<<"7">>, sFord, sFocus, 2017, 7500, 60000, sLondonUK, sDiesel, sManual, Absent),
      Listing(<<"8">>, sFord, sFocus, 2017, 7500, 60000, sLondonUK, sDiesel, sManual, u123),
      Listing(<<"9">>, sFord, sFocus, 2017, 7500, 60000, sLondonUK, sDiesel, sManual, u12) }

\* the preferences a variant is derived from: a and c of the pool and a
\* narrow one that names every criterion
MatchPrefs ==
    { p \in PrefPool : p.id \in {<<"a">>, <<"c">>} } \cup
    { Preference(<<"n">>, u12, sFord, sFocus, 2017, 2018, 7500, 8000, sUKLondon, sDiesel, sManual) }

\* the preference with its year and price range widened, or left as it is
Widenings(p) ==
    { [p EXCEPT !.min_year = lo_year, !.max_year = hi_year,
                !.min_price = lo_price, !.max_price = hi_price] :
        lo_year \in {p.min_year, p.min_year - 1, NoInt},
        hi_year \in {p.max_year, p.max_year + 6},
        lo_price \in {p.min_price, p.min_price - 500},
        hi_price \in {p.max_price, p.max_price + 1000, NoInt} }

\* 'Any' in the three spellings the model uses
AnySpellings == {sAnyCap, sAny, <<"A", "N", "Y">>}

\* the preference with one of its text criteria replaced by 'Any'
AnyVariants(p) ==
    {[p EXCEPT !.make = any] : any \in AnySpellings} \cup
    {[p EXCEPT !.model = any] : any \in AnySpellings} \cup
    {[p EXCEPT !.location = any] : any \in AnySpellings} \cup
    {[p EXCEPT !.fuel_type = any] : any \in AnySpellings} \cup
    {[p EXCEPT !.transmission = any] : any \in AnySpellings}

\* match_listings_to_preference on one scored listing, for a preference and
\* a variant of it
InitMatch ==
    /\ now = ThisYear
    /\ market \in {NoMarket, GapMarket}
    /\ listings \in {<<l>> : l \in MatchListings}
    /\ prefs \in UNION {{<<p, q>> : q \in Widenings(p) \cup AnyVariants(p)} : p \in MatchPrefs}
    /\ scored = <<>>
    /\ out = NotRun
    /\ result = NotRun
    /\ gradeArg = R(0)
    /\ gradeRes = ""
    /\ matched = <<>>
    /\ curveArg = R(0)
    /\ curveRes = R(0)
    /\ pc = "init"
    /\ marks = 0

\* matching_engine.match_listings_to_preference(scored_listings, preference),
\* once per preference
MatchPreferences ==
    /\ pc = "init"
    /\ matched' = [k \in 1..Len(prefs) |->
                      match_listings_to_preference(
                          batch_score_listings(listings, EngineMarket(market), now), prefs[k])]
    /\ pc' = "match_listings_to_preference"
    /\ UNCHANGED <<now, market, listings, prefs, scored, out, result, gradeArg, gradeRes, marks, curveArg, curveRes>>

NextMatch ==
    MatchPreferences

SpecMatch == InitMatch /\ [][NextMatch]_vars

\* the price curve and the mileage curve on the ratios up to 2, the seams
\* among them
InitCurve ==
    /\ now = ThisYear
    /\ market = NoMarket
    /\ listings = <<>>
    /\ prefs = <<>>
    /\ scored = <<>>
    /\ out = NotRun
    /\ result = NotRun
    /\ gradeArg = R(0)
    /\ gradeRes = ""
    /\ matched = <<>>
    /\ curveArg = R(0)
    /\ curveRes = R(0)
    /\ pc = "init"
    /\ marks = 0

\* _calculate_price_score: the score of a price_ratio
PriceRatioScore(price_ratio) ==
    /\ pc = "init"
    /\ curveArg' = price_ratio
    /\ curveRes' = PriceCurve(price_ratio)
    /\ pc' = "price_curve"
    /\ UNCHANGED <<now, market, listings, prefs, scored, out, result, gradeArg, gradeRes, marks, matched>>

\* _calculate_price_score again, on a higher price against the same market
\* average
PriceRaised(price_ratio) ==
    /\ pc \in {"price_curve", "price_raised"}
    /\ RLt(curveArg, price_ratio)
    /\ curveArg' = price_ratio
    /\ curveRes' = PriceCurve(price_ratio)
    /\ pc' = "price_raised"
    /\ UNCHANGED <<now, market, listings, prefs, scored, out, result, gradeArg, gradeRes, marks, matched>>

\* _calculate_mileage_score: the score of a mileage_ratio
MileageRatioScore(mileage_ratio) ==
    /\ pc = "init"
    /\ curveArg' = mileage_ratio
    /\ curveRes' = MileageCurve(mileage_ratio)
    /\ pc' = "mileage_curve"
    /\ UNCHANGED <<now, market, listings, prefs, scored, out, result, gradeArg, gradeRes, marks, matched>>

\* _calculate_mileage_score again, on a higher mileage at the same age
MileageRaised(mileage_ratio) ==
    /\ pc \in {"mileage_curve", "mileage_raised"}
    /\ RLt(curveArg, mileage_ratio)
    /\ curveArg' = mileage_ratio
    /\ curveRes' = MileageCurve(mileage_ratio)
    /\ pc' = "mileage_raised"
    /\ UNCHANGED <<now, market, listings, prefs, scored, out, result, gradeArg, gradeRes, marks, matched>>

\* the ratios scored: a price or mileage of 0 never reaches its curve, so
\* from above 0 to 2 in steps of 1 / (10 * Resolution)
Ratios ==
    {Rat(n, 10 * Resolution) : n \in 1..(20 * Resolution)}

NextCurve ==
    \/ \E price_ratio \in Ratios : PriceRatioScore(price_ratio)
    \/ \E price_ratio \in Ratios : PriceRaised(price_ratio)
    \/ \E mileage_ratio \in Ratios : MileageRatioScore(mileage_ratio)
    \/ \E mileage_ratio \in Ratios : MileageRaised(mileage_ratio)

SpecCurve == InitCurve /\ [][NextCurve]_vars

-----------------------------------------------------------------------------
(* The specification's words, used to state its properties *)

\* the last step was a run of find_matches and it returned its match lists
Returned ==
    pc = "find_matches" /\ out.ok

\* the positions <<user key, index>> of the matches returned
Positions ==
    UNION {{<<u, i>> : i \in 1..Len(out.val[u])} : u \in DOMAIN out.val}

\* the match at a position
MatchAt(pos) ==
    out.val[pos[1]][pos[2]]

\* a text field that is absent, null or empty
Blank(v) ==
    v \in {Absent, Null, <<>>}

\* a make or model criterion passes when the preference gives none or "any",
\* when the listing gives none, or when one contains the other, whatever the case
NamePasses(wanted, have) ==
    \/ Blank(wanted)
    \/ Lower(wanted) = sAny
    \/ Blank(have)
    \/ Contains(Lower(wanted), Lower(have))
    \/ Contains(Lower(have), Lower(wanted))

\* a year or price criterion passes when the listing gives none (or 0) or the
\* value lies within the bounds the preference gives
RangePasses(v, lo, hi) ==
    \/ v \in {NoInt, 0}
    \/ (lo = NoInt \/ lo <= v) /\ (hi = NoInt \/ v <= hi)

\* the four mandatory criteria: make, model, year and price
MandatoryPass(l, p) ==
    /\ NamePasses(p.make, l.make)
    /\ NamePasses(p.model, l.model)
    /\ RangePasses(l.year, p.min_year, p.max_year)
    /\ RangePasses(l.price, p.min_price, p.max_price)

\* a soft criterion the preference asks for: given and not "any"
Wanted(v) ==
    ~Blank(v) /\ Lower(v) # sAny

\* the location criterion fails: both sides name a city and neither city
\* contains the other
LocationFails(l, p) ==
    /\ Wanted(p.location)
    /\ ~Blank(l.location)
    /\ _extract_location(Lower(p.location)) # <<>>
    /\ _extract_location(Lower(l.location)) # <<>>
    /\ ~Contains(_extract_location(Lower(p.location)), _extract_location(Lower(l.location)))
    /\ ~Contains(_extract_location(Lower(l.location)), _extract_location(Lower(p.location)))

\* a fuel type or transmission criterion fails: the listing gives a value that
\* does not contain the preference's
ValueFails(wanted, have) ==
    Wanted(wanted) /\ ~Blank(have) /\ ~Contains(Lower(wanted), Lower(have))

\* one of the three soft criteria fails
SoftFails(l, p) ==
    \/ LocationFails(l, p)
    \/ ValueFails(p.fuel_type, l.fuel_type)
    \/ ValueFails(p.transmission, l.transmission)

\* matched_to is a comma-separated list of user ids with the entry u
NamesUser(marker, u) ==
    /\ marker # Absent
    /\ \E i \in 1..Len(marker) :
          /\ i + Len(u) - 1 <= Len(marker)
          /\ SubSeq(marker, i, i + Len(u) - 1) = u
          /\ (i = 1 \/ marker[i - 1] = ",")
          /\ (i + Len(u) - 1 = Len(marker) \/ marker[i + Len(u)] = ",")

\* the pair of listing j and preference k is one the run evaluates for a
\* user, and but for its soft criteria nothing keeps it from the user's list
Candidate(j, k) ==
    /\ ~NoUser(prefs[k])
    /\ ~NamesUser(listings[j].matched_to, Str(prefs[k].user_id))
    /\ ~_is_suspicious(listings[j], now)
    /\ MandatoryPass(listings[j], prefs[k])

\* the user's list holds the match of listing j to preference k
Included(j, k) ==
    /\ Str(prefs[k].user_id) \in DOMAIN out.val
    /\ \E i \in 1..Len(out.val[Str(prefs[k].user_id)]) :
          /\ out.val[Str(prefs[k].user_id)][i].id = listings[j].id
          /\ out.val[Str(prefs[k].user_id)][i].preference_id = prefs[k].id

\* the match records its three soft criteria as satisfied
SoftSatisfied(m) ==
    /\ m.match_details.location_match
    /\ m.match_details.fuel_type_match
    /\ m.match_details.transmission_match

-----------------------------------------------------------------------------
(* The properties *)

C2_GradeTotal ==
    pc = "get_grade" =>
        /\ gradeRes \in {"A+", "A", "B", "C", "D"}
        /\ (gradeArg = Rat(899, 10) => gradeRes = "A")
        /\ (gradeArg = R(90) => gradeRes = "A+")

\* C3: a listing score_listing classifies as suspicious gets the score 0, the
\* grade "F", the flag suspicious = true and a non-empty list of reasons,
\* whatever its other fields and whatever the market data.
C3_SuspiciousScoresZero ==
    (pc = "score_listing" /\ _is_suspicious(listings[1], now)) =>
        /\ result.ok
        /\ result.val.score = 0
        /\ result.val.grade = "F"
        /\ result.val.score_details.suspicious = TRUE
        /\ result.val.score_details.reasons # <<>>

\* a suspicious listing with a low mileage for its age, of a make and model
\* the market data knows, was scored
C3_SuspiciousBargainScored ==
    /\ pc = "score_listing"
    /\ _is_suspicious(listings[1], now)
    /\ listings[1].price = 499
    /\ listings[1].year = 2018
    /\ listings[1].mileage = 5000
    /\ listings[1].make = sFord
    /\ market = SAMPLE_MARKET_DATA
    /\ result.ok

\* C10: every result score_listing returns for a listing carries an overall
\* score within [0, 100], for every price, mileage, year and market average.
C10_ScoreWithinBounds ==
    (pc = "score_listing" /\ result.ok) =>
        /\ result.val.score >= 0
        /\ result.val.score <= 100 * 10

\* a listing far below its market average and far below its expected mileage
\* was scored: both sub-scores sit at their caps
C10_BothSubScoresCapped ==
    /\ pc = "score_listing"
    /\ result.ok
    /\ ~result.val.score_details.suspicious
    /\ market = SAMPLE_MARKET_DATA
    /\ listings[1].price = 1000
    /\ listings[1].year = 2015
    /\ result.val.score_details.price_score = 100 * 10
    /\ result.val.score_details.mileage_score = 90 * 10

\* C4: every match returned under user U comes from a preference of U and
\* from a listing that is not suspicious and passes the preference's four
\* mandatory criteria (make, model, year, price).
C4_MatchesPassMandatory ==
    Returned =>
        \A pos \in Positions :
            \E j \in 1..Len(listings) : \E k \in 1..Len(prefs) :
                /\ MatchAt(pos).id = listings[j].id
                /\ MatchAt(pos).preference_id = prefs[k].id
                /\ ~NoUser(prefs[k])
                /\ Str(prefs[k].user_id) = pos[1]
                /\ MatchAt(pos).user_id = prefs[k].user_id
                /\ ~_is_suspicious(listings[j], now)
                /\ MandatoryPass(listings[j], prefs[k])

\* a run returned lists for both users, from listings one of which is
\* suspicious and one of which is outside a preference's year range
C4_MixedRunReturned ==
    /\ Returned
    /\ DOMAIN out.val = Users
    /\ \E j \in 1..Len(listings) : _is_suspicious(listings[j], now)
    /\ \E j \in 1..Len(listings) : \E k \in 1..Len(prefs) :
          /\ ~NoUser(prefs[k])
          /\ ~_is_suspicious(listings[j], now)
          /\ ~RangePasses(listings[j].year, prefs[k].min_year, prefs[k].max_year)

\* C5, as the specification states it: a listing whose location, fuel type
\* or transmission is absent or null never makes find_matches fail: the run
\* completes, and for every preference that soft criterion is recorded as
\* satisfied.
C5_BlankSoftFieldsSatisfied ==
    pc = "find_matches" =>
        /\ out.ok
        /\ \A pos \in Positions :
              /\ Blank(MatchAt(pos).location) => MatchAt(pos).match_details.location_match
              /\ Blank(MatchAt(pos).fuel_type) => MatchAt(pos).match_details.fuel_type_match
              /\ Blank(MatchAt(pos).transmission) =>
                    MatchAt(pos).match_details.transmission_match

\* C6: a listing that carries the notified marker for user U when a run of
\* find_matches starts is not in U's match list of that run, and so of none
\* of the later runs, in which it still carries the marker.
C6_NotifiedNeverReturned ==
    Returned =>
        \A j \in 1..Len(listings) : \A u \in Users :
            NamesUser(listings[j].matched_to, u) => listings[j].id \notin MatchedIds(out, u)

\* a listing was returned to a user, marked as notified to that user, and
\* the next run returned: the listing still meets a preference of the user
C6_MarkedListingRunAgain ==
    /\ Returned
    /\ marks > 0
    /\ \E j \in 1..Len(listings) : \E k \in 1..Len(prefs) :
          /\ ~NoUser(prefs[k])
          /\ NamesUser(listings[j].matched_to, Str(prefs[k].user_id))
          /\ ~_is_suspicious(listings[j], now)
          /\ MandatoryPass(listings[j], prefs[k])
          /\ ~SoftFails(listings[j], prefs[k])

\* C7, as the specification states it: in every user's match list the
\* matches that carry a score are in non-increasing order of score, and a
\* list in which no match carries a score is in non-decreasing order of
\* price, for every mix of scored and unscored matches.
C7_ListsRanked ==
    Returned =>
        \A u \in DOMAIN out.val :
            /\ \A a \in 1..Len(out.val[u]) : \A b \in 1..Len(out.val[u]) :
                  (/\ a < b
                   /\ "score" \in DOMAIN out.val[u][a]
                   /\ "score" \in DOMAIN out.val[u][b])
                      => out.val[u][a].score >= out.val[u][b].score
            /\ (\A a \in 1..Len(out.val[u]) : "score" \notin DOMAIN out.val[u][a]) =>
                  \A a \in 1..Len(out.val[u]) : \A b \in 1..Len(out.val[u]) :
                      a < b => PriceKey(out.val[u][a]) <= PriceKey(out.val[u][b])

\* C8, as the specification states it: find_matches always returns its match
\* lists: an error while one pair of listing and preference is evaluated
\* leaves that listing out for that preference, and every other pair is
\* evaluated and returned as usual.
C8_RunAlwaysReturns ==
    pc = "find_matches" =>
        /\ out.ok
        /\ \A j \in 1..Len(listings) : \A k \in 1..Len(prefs) :
              (/\ Candidate(j, k)
               /\ ~SoftFails(listings[j], prefs[k])
               /\ ~SoftRaises(listings[j], Lower(Get(prefs[k].location, <<>>)),
                              Lower(Get(prefs[k].fuel_type, sAny)),
                              Lower(Get(prefs[k].transmission, sAny))))
                  => Included(j, k)

\* C9: batch_score_listings never aborts: its result has the length and the
\* order of its input, a listing whose scoring fails is passed on as it was,
\* and every other listing is the result of score_listing on it.
C9_BatchKeepsEveryListing ==
    pc = "batch_score_listings" =>
        /\ Len(scored) = Len(listings)
        /\ \A i \in 1..Len(listings) :
              IF score_listing(listings[i], market, now).ok
              THEN scored[i] = score_listing(listings[i], market, now).val
              ELSE scored[i] = listings[i]

\* a batch was scored in which scoring failed on the first listing, for a
\* division by zero, and on the last, for its mileage, with a listing
\* between them that was scored
C9_FailuresAroundScoredListing ==
    /\ pc = "batch_score_listings"
    /\ Len(listings) = 3
    /\ listings[1].year = now
    /\ listings[3].mileage = BadNum
    /\ ~score_listing(listings[1], market, now).ok
    /\ ~score_listing(listings[3], market, now).ok
    /\ "score" \in DOMAIN scored[2]
    /\ scored[2].score > 0

\* the call for preference k returned the listing as a match
Matches(k) ==
    matched[k].ok /\ matched[k].val # <<>>

\* a lower bound no higher than another; no lower bound is the lowest
NoHigher(a, b) ==
    a = NoInt \/ (b # NoInt /\ a <= b)

\* an upper bound no lower than another; no upper bound is the highest
NoLower(a, b) ==
    a = NoInt \/ (b # NoInt /\ a >= b)

\* q differs from p at most in its year and price ranges, which are at least
\* as wide as those of p
WiderRanges(p, q) ==
    /\ [q EXCEPT !.min_year = p.min_year, !.max_year = p.max_year,
                 !.min_price = p.min_price, !.max_price = p.max_price] = p
    /\ NoHigher(q.min_year, p.min_year)
    /\ NoLower(q.max_year, p.max_year)
    /\ NoHigher(q.min_price, p.min_price)
    /\ NoLower(q.max_price, p.max_price)

\* C11: matching is monotonic in the ranges: when two preferences differ only
\* in that the second has a wider year or price range, a listing that matches
\* the first matches the second.
C11_WideningKeepsMatch ==
    (/\ pc = "match_listings_to_preference"
     /\ WiderRanges(prefs[1], prefs[2])
     /\ Matches(1))
        => Matches(2)

\* a listing at the lower end of the narrow year and price ranges matched the
\* narrow preference and the one with a lower min_year and no max_price
C11_WidenedRangeMatched ==
    /\ pc = "match_listings_to_preference"
    /\ WiderRanges(prefs[1], prefs[2])
    /\ prefs[2].min_year < prefs[1].min_year
    /\ prefs[2].max_price = NoInt
    /\ Matches(1)
    /\ Matches(2)
    /\ listings[1].year = prefs[1].min_year
    /\ listings[1].price = prefs[1].min_price

\* the text criteria of a preference and the flags that record them
TextCriteria == {"make", "model", "location", "fuel_type", "transmission"}

FlagOf(f) ==
    CASE f = "make" -> "make_match"
      [] f = "model" -> "model_match"
      [] f = "location" -> "location_match"
      [] f = "fuel_type" -> "fuel_type_match"
      [] f = "transmission" -> "transmission_match"

\* q is p with its criterion f replaced by 'Any', in any case
AnyReplaces(f, p, q) ==
    /\ q[f] \in {<<x, y, z>> : x \in {"A", "a"}, y \in {"N", "n"}, z \in {"Y", "y"}}
    /\ [q EXCEPT ![f] = p[f]] = p

\* C12: a text criterion of 'Any', in any case, is satisfied by every
\* listing: replacing the value of one such criterion by 'Any' never removes a
\* listing that matched, and every match records the criterion's flag as true.
C12_AnyMatchesEveryValue ==
    pc = "match_listings_to_preference" =>
        \A f \in TextCriteria :
            AnyReplaces(f, prefs[1], prefs[2]) =>
                /\ Matches(1) => Matches(2)
                /\ Matches(2) => matched[2].val[1].match_details[FlagOf(f)]

\* a listing in Manchester that a London preference left out matched the same
\* preference with the location 'ANY'
C12_AnyLocationMatched ==
    /\ pc = "match_listings_to_preference"
    /\ AnyReplaces("location", prefs[1], prefs[2])
    /\ prefs[1].location = sUKLondon
    /\ prefs[2].location = <<"A", "N", "Y">>
    /\ listings[1].location = sManchesterUK
    /\ matched[1].ok
    /\ ~Matches(1)
    /\ Matches(2)

\* the preferences that name a user, in their order
RECURSIVE WithUser(_)
WithUser(ps) ==
    IF ps = <<>> THEN <<>>
    ELSE IF Blank(Head(ps).user_id) THEN WithUser(Tail(ps))
    ELSE <<Head(ps)>> \o WithUser(Tail(ps))

\* C13: a preference without a user_id is skipped: it contributes no match,
\* and the run returns what it returns for the same listings and the other
\* preferences alone.
C13_NoUserPreferenceSkipped ==
    pc = "find_matches" =>
        /\ out = find_matches(listings, WithUser(prefs), market, now)
        /\ out.ok =>
              \A pos \in Positions : \A k \in 1..Len(prefs) :
                  Blank(prefs[k].user_id) => MatchAt(pos).preference_id # prefs[k].id

\* a run returned matches for a user although the preference before that
\* user's has no user_id and a listing of the run meets its criteria
C13_NoUserPreferenceFirst ==
    /\ Returned
    /\ Len(prefs) = 2
    /\ Blank(prefs[1].user_id)
    /\ ~Blank(prefs[2].user_id)
    /\ Str(prefs[2].user_id) \in DOMAIN out.val
    /\ \E j \in 1..Len(listings) :
          /\ ~_is_suspicious(listings[j], now)
          /\ MandatoryPass(listings[j], prefs[1])
          /\ ~SoftFails(listings[j], prefs[1])

\* a preference of user u produced a match
ProducedMatch(u) ==
    \E j \in 1..Len(listings) : \E k \in 1..Len(prefs) :
        /\ Candidate(j, k)
        /\ Str(prefs[k].user_id) = u
        /\ ~SoftFails(listings[j], prefs[k])

\* C14: the map find_matches returns holds no empty list: a user is a key of
\* it if and only if one of the user's preferences produced a match.
C14_NoEmptyLists ==
    Returned =>
        /\ \A u \in DOMAIN out.val : out.val[u] # <<>>
        /\ DOMAIN out.val \subseteq Users
        /\ \A u \in Users : u \in DOMAIN out.val <=> ProducedMatch(u)

\* a run returned matches for one user and none for the other, who has a
\* preference in the run
C14_OneUserWithoutMatches ==
    /\ Returned
    /\ listings # <<>>
    /\ DOMAIN out.val = {u12}
    /\ \E k \in 1..Len(prefs) : prefs[k].user_id = u45

\* C15, as the specification states it: score_listing is pure: a call with
\* the same listing and the same market data returns the same result,
\* whatever happened between the two calls, a change of calendar year
\* included.
C15_SameResultEveryYear ==
    [][(pc = "new_year" /\ pc' = "score_listing") => result' = result]_vars

\* the call returned a result flagged as suspicious
Flagged ==
    result.ok /\ result.val.score_details.suspicious

\* C16, as the specification states it: every listing with price = 500 is
\* classified suspicious and gets the score 0 and the grade "F", whatever its
\* make, model, year and other fields.
C16_Price500Suspicious ==
    (pc = "score_listing" /\ listings[1].price = 500) =>
        /\ Flagged
        /\ result.val.score = 0
        /\ result.val.grade = "F"

\* C16, amended: a listing with price = 500 is classified suspicious, with
\* the score 0 and the grade "F", if and only if its make or model is absent
\* or its year is present and its age is at most 10 years: the price of 500
\* alone is not suspicious, the threshold being a price below 500.
C16_Price500SuspiciousByAge ==
    (pc = "score_listing" /\ listings[1].price = 500) =>
        /\ Flagged <=>
              \/ Blank(listings[1].make)
              \/ Blank(listings[1].model)
              \/ listings[1].year # NoInt /\ now - listings[1].year <= 10
        /\ Flagged => result.val.score = 0 /\ result.val.grade = "F"

\* a Ford Focus of 2005 at the price of 500 was scored: it is not flagged and
\* has a score above 0
C16_OldCarAt500Scored ==
    /\ pc = "score_listing"
    /\ listings[1].price = 500
    /\ listings[1].year = 2005
    /\ listings[1].make = sFord
    /\ listings[1].model = sFocus
    /\ result.ok
    /\ ~result.val.score_details.suspicious
    /\ result.val.score > 0

\* C17, as the specification states it: the market-data price curve is
\* continuous at every seam: at each of the ratios 0.5, 0.9, 1.1 and 1.5 the
\* formula of the band that ends there and the formula of the band that
\* starts there give the same score, the one the curve returns.
C17_PriceCurveContinuous ==
    pc = "price_curve" =>
        \A b \in 1..Len(PriceSeams) :
            curveArg = PriceSeams[b] =>
                /\ curveRes = PriceBand(b, curveArg)
                /\ PriceBand(b, curveArg) = PriceBand(b + 1, curveArg)

\* the Ford Focus of 2018 priced 7500 against the sample market data, whose
\* average for it is 12000
ScenarioA ==
    /\ pc = "score_listing"
    /\ listings[1].make = sFord
    /\ listings[1].model = sFocus
    /\ listings[1].year = 2018
    /\ listings[1].price = 7500
    /\ market = SAMPLE_MARKET_DATA
    /\ SAMPLE_MARKET_DATA[kFordFocus][2018] = 12000
    /\ result.ok

\* C18, as the specification states it: for a listing priced 7500 whose
\* market average is 12000 (ratio 0.625) the price score is 83.1 at one
\* decimal.
C18_ScenarioAPriceScore831 ==
    ScenarioA => result.val.score_details.price_score = 831

\* C18, amended: for a listing priced 7500 whose market average is 12000
\* (ratio 0.625) the price score of the 0.5-0.9 band formula,
\* 90 - (0.625 - 0.5) * 75, is 80.625, reported as 80.6 at one decimal.
C18_ScenarioAPriceScore806 ==
    ScenarioA =>
        /\ _calculate_price_score(listings[1], market, now) = Rat(80625, 1000)
        /\ result.val.score_details.price_score = 806

\* the listing of scenario A was scored, with its mileage of 45000
C18_ScenarioAScored ==
    /\ ScenarioA
    /\ listings[1].mileage = 45000
    /\ now = ThisYear
    /\ ~result.val.score_details.suspicious

\* C19: for every listing that is not suspicious the overall score of the
\* result is 0.6 * price_score + 0.4 * mileage_score rounded to one decimal,
\* on the sub-scores the price and mileage steps compute for the listing.
C19_OverallIsWeightedSum ==
    (pc = "score_listing" /\ result.ok /\ ~result.val.score_details.suspicious) =>
        result.val.score =
            Round1(RAdd(RMul(Rat(6, 10), _calculate_price_score(listings[1], market, now)),
                        RMul(Rat(4, 10), _calculate_mileage_score(listings[1], now).val)))

\* a listing was scored whose sub-scores differ and whose weighted sum is
\* rounded: price score 80.625, mileage score 79.09..., overall score 80.0
C19_UnequalSubScoresCombined ==
    /\ pc = "score_listing"
    /\ result.ok
    /\ now = ThisYear
    /\ result.val.score_details.price_score = 806
    /\ result.val.score_details.mileage_score = 791
    /\ result.val.score = 800

\* the classification as the specification words it
SuspiciousBySpec(l, current_year) ==
    \/ l.price # NoInt /\ l.price < 500
    \/ l.make \in {Absent, Null}
    \/ l.model \in {Absent, Null}
    \/ /\ l.year # NoInt
       /\ l.price # NoInt
       /\ \/ current_year - l.year <= 3 /\ l.price < 3000
          \/ current_year - l.year <= 10 /\ l.price < 1000

\* C20: a listing is classified suspicious if and only if its price is below
\* 500, or its make or model is absent, or its age is at most 3 years and its
\* price below 3000, or its age is at most 10 years and its price below 1000,
\* the age rules applying only when both year and price are present.
C20_SuspiciousExactly ==
    pc = "score_listing" => (Flagged <=> SuspiciousBySpec(listings[1], now))

\* a listing was flagged for the 10-year rule alone: a Ford Focus of 2018 at
\* the price of 999
C20_FlaggedByTenYearRule ==
    /\ pc = "score_listing"
    /\ listings[1].make = sFord
    /\ listings[1].model = sFocus
    /\ listings[1].year = 2018
    /\ listings[1].price = 999
    /\ Flagged

\* C21, as the specification states it: score_listing gives the price score
\* 50 whenever the listing's price, make, model or year is missing and the
\* mileage score 50 whenever its mileage or year is missing, and returns a
\* result in each of these cases.
C21_MissingFieldsNeutral ==
    pc = "score_listing" =>
        /\ (\/ listings[1].price = NoInt
            \/ listings[1].make \in {Absent, Null}
            \/ listings[1].model \in {Absent, Null}
            \/ listings[1].year = NoInt) =>
                result.ok /\ result.val.score_details.price_score = 500
        /\ (listings[1].mileage = NoInt \/ listings[1].year = NoInt) =>
                result.ok /\ result.val.score_details.mileage_score = 500

\* C21, amended: a listing whose make or model is missing is classified
\* suspicious and gets the price score 0 and the mileage score 0; a listing
\* that is not suspicious gets the price score 50 whenever its price or year
\* is missing and the mileage score 50 whenever its mileage or year is
\* missing; and score_listing fails only on a listing whose mileage and year
\* are both present.
C21_MissingFieldsNeutralUnlessSuspicious ==
    pc = "score_listing" =>
        /\ (listings[1].make \in {Absent, Null} \/ listings[1].model \in {Absent, Null}) =>
                /\ Flagged
                /\ result.val.score_details.price_score = 0
                /\ result.val.score_details.mileage_score = 0
        /\ (result.ok /\ ~Flagged) =>
                /\ (listings[1].price = NoInt \/ listings[1].year = NoInt) =>
                        result.val.score_details.price_score = 500
                /\ (listings[1].mileage = NoInt \/ listings[1].year = NoInt) =>
                        result.val.score_details.mileage_score = 500
        /\ ~result.ok => listings[1].mileage # NoInt /\ listings[1].year # NoInt

\* a Ford Focus with neither price nor mileage was scored: it is not flagged
\* and both sub-scores are 50
C21_PriceAndMileageMissingScored ==
    /\ pc = "score_listing"
    /\ listings[1].make = sFord
    /\ listings[1].model = sFocus
    /\ listings[1].year = 2018
    /\ listings[1].price = NoInt
    /\ listings[1].mileage = NoInt
    /\ result.ok
    /\ ~Flagged
    /\ result.val.score_details.price_score = 500
    /\ result.val.score_details.mileage_score = 500

\* the years the market data tabulates for the listing's make and model
KnownYears(l) ==
    LET key == Lower(l.make) \o <<"_">> \o Lower(l.model)
    IN IF key \in DOMAIN market THEN DOMAIN market[key] ELSE {}

\* the tabulated price of the listing's make and model for a known year
KnownPrice(l, y) ==
    market[Lower(l.make) \o <<"_">> \o Lower(l.model)][y]

\* the price on the line through the nearest known year below and the
\* nearest known year above the listing's year
Between(l, below, above) ==
    RAdd(R(KnownPrice(l, below)),
         RMul(Rat(l.year - below, above - below),
              R(KnownPrice(l, above) - KnownPrice(l, below))))

\* the expected price in the order exact entry, interpolation, none
ExpectedBySpec(l) ==
    LET years == KnownYears(l)
        lower == {y \in years : y < l.year}
        upper == {y \in years : y > l.year}
    IN IF l.year \in years THEN [some |-> TRUE, val |-> R(KnownPrice(l, l.year))]
       ELSE IF lower # {} /\ upper # {}
            THEN [some |-> TRUE,
                  val |-> Between(l, CHOOSE y \in lower : \A z \in lower : z <= y,
                                     CHOOSE y \in upper : \A z \in upper : y <= z)]
       ELSE [some |-> FALSE, val |-> R(0)]

\* the call scored a listing with price, make, model and year present
PriceScored ==
    /\ pc = "score_listing"
    /\ result.ok
    /\ ~Flagged
    /\ listings[1].price # NoInt
    /\ listings[1].year # NoInt
    /\ ~Blank(listings[1].make)
    /\ ~Blank(listings[1].model)

\* C22: the expected price behind the price score is the market-data entry
\* of the make, model and year when there is one; else, when the make and
\* model have entries and the year lies between two known years, the linear
\* interpolation between the nearest known year below and above; the
\* depreciation fallback is used only when neither applies.
C22_ExpectedPriceOrder ==
    PriceScored =>
        result.val.score_details.price_score =
            IF ExpectedBySpec(listings[1]).some
            THEN Round1(PriceCurve(RDiv(R(listings[1].price), ExpectedBySpec(listings[1]).val)))
            ELSE Round1(PriceScoreFrom(listings[1].price, listings[1].year, NoAverage, now))

\* a Ford Focus of 2016 priced 7500 was scored against a table that knows
\* 2015 (8000) and 2018 (12000) only: the expected price is 9333.33 and the
\* price score 67.2
C22_InterpolatedYearScored ==
    /\ PriceScored
    /\ market = GapMarket
    /\ listings[1].year = 2016
    /\ listings[1].price = 7500
    /\ ExpectedBySpec(listings[1]).val = Rat(28000, 3)
    /\ result.val.score_details.price_score = 672

\* C23: the mileage-score curve is continuous at every seam: at each of the
\* mileage ratios 0.5, 0.9, 1.1 and 1.5 the formula of the band that ends
\* there and the formula of the band that starts there give the same score,
\* the one the curve returns.
C23_MileageCurveContinuous ==
    pc = "mileage_curve" =>
        \A b \in 1..Len(MileageSeams) :
            curveArg = MileageSeams[b] =>
                /\ curveRes = MileageBand(b, curveArg)
                /\ MileageBand(b, curveArg) = MileageBand(b + 1, curveArg)

\* the mileage ratio 0.5 was scored: 90, which the flat band and the band
\* that starts at 0.5 both give
C23_FirstMileageSeamScored ==
    /\ pc = "mileage_curve"
    /\ curveArg = MileageSeams[1]
    /\ curveArg = Rat(1, 2)
    /\ curveRes = R(90)
    /\ MileageBand(2, curveArg) = R(90)

\* C24, as the specification states it: score_listing returns a result for
\* every listing that is not suspicious and whose present fields are numbers
\* and texts, at every age of 0 or more, the age 0 (the year is the current
\* year) with a mileage above 0 included.
C24_EveryAgeScored ==
    (/\ pc = "score_listing"
     /\ ~SuspiciousBySpec(listings[1], now)
     /\ listings[1].mileage # BadNum
     /\ (listings[1].year # NoInt => now - listings[1].year >= 0)) =>
        result.ok

\* C25, as the specification states it: in the output of find_matches a
\* listing appears at most once in a user's match list, also when several
\* preferences of that user match it in the same run.
C25_ListingOncePerUser ==
    Returned =>
        \A u \in DOMAIN out.val :
            \A i, j \in 1..Len(out.val[u]) :
                out.val[u][i].id = out.val[u][j].id => i = j

\* C26, as the specification states it: the de-duplication is exact per
\* user: a listing that is not suspicious and meets every criterion of a
\* preference of user U is kept from U's matches only if its matched_to
\* marker names U itself; a marker that names a different user, such as 123
\* for the user 12, never removes it.
C26_SkippedOnlyForOwnMarker ==
    pc = "match_listings_to_preference" =>
        \A k \in 1..Len(prefs) :
            (/\ matched[k].ok
             /\ ~_is_suspicious(listings[1], now)
             /\ MandatoryPass(listings[1], prefs[k])
             /\ ~SoftFails(listings[1], prefs[k])
             /\ ~NamesUser(listings[1].matched_to, Str(prefs[k].user_id))) =>
                Matches(k)

\* C27, as the specification states it: the grade is a function of the
\* reported one-decimal overall score: the grade of a result that is not
\* suspicious is the one the grade bands give for the reported score, so two
\* results with the same reported score have the same grade.
C27_GradeOfReportedScore ==
    (pc = "score_listing" /\ result.ok /\ ~Flagged) =>
        result.val.grade = _get_grade(Rat(result.val.score, 10))

\* C28: on the depreciation fallback path (no market average for the make,
\* model and year) the price score is 50 for every listing with price, make,
\* model and year present and an age of 0 or more, whatever the price and
\* the age: the steps 90, 70, 30 and 10 are never taken.
C28_FallbackAlwaysFifty ==
    (/\ PriceScored
     /\ now - listings[1].year >= 0
     /\ ~ExpectedBySpec(listings[1]).some) =>
        result.val.score_details.price_score = 500

\* a Ford Focus of 2005 priced 30000 was scored without market data: the
\* price score is 50 at the age of 21 and the retention factor 0.10
C28_OldExpensiveCarScored ==
    /\ PriceScored
    /\ market = NoMarket
    /\ listings[1].year = 2005
    /\ listings[1].price = 30000
    /\ PRICE_DEPRECIATION[ClosestDepreciationAge(now - listings[1].year)] = 10
    /\ result.val.score_details.price_score = 500

\* C29: the curves are monotone: against the same positive market average
\* the price score never increases when the price increases, and at the same
\* age the mileage score never increases when the mileage increases, from
\* any ratio to any higher one, across every seam.
C29_CurvesNeverIncrease ==
    [][(pc' \in {"price_raised", "mileage_raised"} /\ RLt(curveArg, curveArg')) =>
            RLe(curveRes', curveRes)]_vars

\* a price was raised across the seam at 0.5 and scored again, lower than
\* the 100 of the first band
C29_PriceRaisedAcrossSeam ==
    /\ pc = "price_raised"
    /\ RLt(PriceSeams[1], curveArg)
    /\ RLt(curveArg, PriceSeams[2])
    /\ RLt(curveRes, R(90))
    /\ RLt(PriceBand(3, PriceSeams[2]), curveRes)

\* the keys score_listing and match_listings_to_preference add to a record
AddedKeys ==
    {"score", "grade", "score_details", "match_details", "preference_id", "user_id"}

\* a match is a copy of the caller's listing l: it agrees with l on every key
\* of l and carries the keys of the match
CopyOf(m, l) ==
    /\ m.id = l.id
    /\ [k \in DOMAIN l |-> m[k]] = l
    /\ {"match_details", "preference_id", "user_id"} \subseteq DOMAIN m

====
